---------------------------- MODULE Spec2Model ----------------------------
(***************************************************************************)
(* Model of the shares extension of python-cinderclient:                   *)
(*   cinderclient/v2/contrib/shares.py          Share, ShareManager        *)
(*   cinderclient/v2/contrib/share_snapshots.py Snapshot, SnapshotManager  *)
(*   tests/v1/contrib/shares/fakes.py           FakeHTTPClient             *)
(*                                                                         *)
(* Python values are tagged records [t |-> type, v |-> value].  A str that *)
(* the code inspects character by character (an access value, a search     *)
(* option) is a sequence of one-character strings.  A dict is the 8-slot   *)
(* open-addressing table of CPython 2, so that keys(), values() and        *)
(* items() come out in slot order.  A URL is the sequence of the pieces    *)
(* the code concatenates.                                                  *)
(***************************************************************************)
EXTENDS Integers, Sequences, FiniteSets, TLC

VARIABLES
    pc,          \* "idle": no call in progress; "done": a call has returned
    call,        \* the operation called and its arguments
    requests,    \* the HTTP requests issued by the call, in order
    outcome,     \* [exc |-> exception raised or "none", value |-> returned]
    consulted,   \* the validators the call ran, in order
    reply,       \* what the HTTP client answered to the call's request
    gettext_installed, \* whether builtins holds the gettext function "_"
    stdout,      \* the rows a shell command printed
    resource     \* the Share or Snapshot a shell command displayed, after it

vars == <<pc, call, requests, outcome, consulted, reply, gettext_installed,
          stdout, resource>>

-----------------------------------------------------------------------------
(* Bounds of the model.                                                    *)

\* the most '/' characters in an access value
MaxSlashes == 2
\* the most dot-separated segments in an address of the wrong length
MaxSegments == 5
\* the longest run of word characters at the start of a user name
MaxWordRun == 34
\* the most elements in a server's access_list array
MaxRules == 2

-----------------------------------------------------------------------------
(* Python values.                                                          *)

None == [t |-> "None"]
PyStr(s) == [t |-> "str", v |-> s]
PyInt(n) == [t |-> "int", v |-> n]
PyBool(b) == [t |-> "bool", v |-> b]
PyDictOf(d) == [t |-> "dict", v |-> d]
PyList(l) == [t |-> "list", v |-> l]

\* bool(x): None, '', 0, False, {} and [] are false
Truthy(x) ==
    CASE x.t = "None" -> FALSE
      [] x.t = "str"  -> x.v # <<>>
      [] x.t = "int"  -> x.v # 0
      [] x.t = "bool" -> x.v
      [] x.t = "list" -> x.v # <<>>
      [] x.t = "dict" -> \E i \in DOMAIN x.v : Len(x.v[i]) # 0
      [] OTHER        -> TRUE

Digits == {"0", "1", "2", "3", "4", "5", "6", "7", "8", "9"}
Letters ==
    {"a", "b", "c", "d", "e", "f", "g", "h", "i", "j", "k", "l", "m",
     "n", "o", "p", "q", "r", "s", "t", "u", "v", "w", "x", "y", "z",
     "A", "B", "C", "D", "E", "F", "G", "H", "I", "J", "K", "L", "M",
     "N", "O", "P", "Q", "R", "S", "T", "U", "V", "W", "X", "Y", "Z"}
Whitespace == {" "}

DigitVal(c) ==
    CASE c = "0" -> 0 [] c = "1" -> 1 [] c = "2" -> 2 [] c = "3" -> 3
      [] c = "4" -> 4 [] c = "5" -> 5 [] c = "6" -> 6 [] c = "7" -> 7
      [] c = "8" -> 8 [] c = "9" -> 9

\* str.split(sep) for a one-character separator: the pieces between the
\* separators, empty pieces kept
RECURSIVE SplitFrom(_, _, _, _)
SplitFrom(s, sep, i, cur) ==
    IF i > Len(s) THEN <<cur>>
    ELSE IF s[i] = sep THEN <<cur>> \o SplitFrom(s, sep, i + 1, <<>>)
    ELSE SplitFrom(s, sep, i + 1, Append(cur, s[i]))

Split(s, sep) == SplitFrom(s, sep, 1, <<>>)

\* str.strip(): leading and trailing whitespace removed
RECURSIVE LStrip(_)
LStrip(s) == IF s # <<>> /\ Head(s) \in Whitespace THEN LStrip(Tail(s)) ELSE s

RECURSIVE RStrip(_)
RStrip(s) ==
    IF s # <<>> /\ s[Len(s)] \in Whitespace
    THEN RStrip(SubSeq(s, 1, Len(s) - 1)) ELSE s

RECURSIVE DecimalValue(_, _)
DecimalValue(s, acc) ==
    IF s = <<>> THEN acc ELSE DecimalValue(Tail(s), 10 * acc + DigitVal(Head(s)))

\* int(s) of Python 2 on a str: whitespace stripped, an optional sign, then
\* one or more decimal digits; anything else is a ValueError
int(s) ==
    LET body == RStrip(LStrip(s))
        signed == body # <<>> /\ Head(body) \in {"+", "-"}
        digits == IF signed THEN Tail(body) ELSE body
    IN IF digits = <<>> \/ \E i \in 1..Len(digits) : digits[i] \notin Digits
       THEN [exc |-> "ValueError", value |-> 0]
       ELSE [exc |-> "none",
             value |-> IF signed /\ Head(body) = "-"
                       THEN 0 - DecimalValue(digits, 0)
                       ELSE DecimalValue(digits, 0)]

-----------------------------------------------------------------------------
(* The dict of CPython 2: a table of 8 slots, a key placed in the first    *)
(* free slot of its probe sequence; the model's dicts hold at most 5       *)
(* entries, below the size at which the table grows.                       *)

PyDictSlots == 0..7
NoEntry == <<>>
EmptyDict == [i \in PyDictSlots |-> NoEntry]

\* the slots CPython 2.7 (64-bit) probes for a key: hash & 7, then
\* i = 5*i + perturb + 1 with perturb = hash, hash >> 5, ...
PyProbe(k) ==
    CASE k = "access_type" -> <<6, 5, 6, 5, 7, 0, 7, 1>>
      [] k = "access_to" -> <<7, 3, 7, 5, 7, 5, 4, 6>>
      [] k = "access_id" -> <<7, 3, 7, 4, 2, 5, 5, 3>>
      [] k = "id" -> <<5, 7, 0, 2, 4, 6, 2, 5>>
      [] k = "state" -> <<2, 5, 7, 3, 3, 5, 0, 2>>
      [] k = "created_at" -> <<2, 5, 1, 2, 0, 7, 3, 4>>
      [] k = "size" -> <<7, 3, 0, 3, 5, 1, 1, 6>>
      [] k = "snapshot_id" -> <<7, 3, 4, 3, 3, 1, 5, 3>>
      [] k = "name" -> <<5, 7, 7, 6, 1, 4, 5, 6>>
      [] k = "description" -> <<5, 7, 2, 3, 0, 7, 0, 1>>
      [] k = "share_type" -> <<6, 5, 3, 0, 2, 6, 6, 7>>
      [] k = "share_id" -> <<3, 3, 4, 7, 5, 6, 3, 2>>
      [] k = "force" -> <<4, 1, 2, 3, 7, 2, 5, 6>>
      [] k = "all_tenants" -> <<4, 1, 4, 5, 6, 2, 4, 6>>
      [] k = "status" -> <<0, 1, 4, 0, 1, 4, 3, 3>>
      [] k = "os-allow_access" -> <<0, 1, 3, 2, 0, 6, 4, 1>>
      [] k = "os-deny_access" -> <<0, 1, 6, 0, 5, 1, 6, 2>>
      [] k = "os-access_deny" -> <<4, 1, 7, 1, 0, 2, 4, 3>>
      [] k = "os-access_list" -> <<2, 5, 1, 3, 3, 4, 1, 5>>
      [] k = "share" -> <<4, 1, 2, 7, 3, 6, 0, 5>>
      [] k = "share-snapshot" -> <<4, 1, 3, 5, 7, 2, 5, 0>>
      [] k = "access_list" -> <<6, 5, 7, 6, 7, 6, 1, 6>>
      [] k = "links" -> <<6, 5, 6, 5, 2, 6, 3, 0>>
      [] k = "shares" -> <<6, 5, 7, 6, 7, 6, 2, 3>>
      [] k = "share-snapshots" -> <<2, 5, 0, 2, 3, 2, 6, 3>>

\* d[k] = v
PyDictSetItem(d, k, v) ==
    LET probe == PyProbe(k)
        free(j) == Len(d[probe[j]]) = 0 \/ d[probe[j]][1] = k
        first == CHOOSE j \in 1..Len(probe) :
                     free(j) /\ \A h \in 1..(j - 1) : ~free(h)
    IN [d EXCEPT ![probe[first]] = <<k, v>>]

\* a dict display {k1: v1, ...}, or a decoded JSON object: the pairs are
\* inserted in the order written
RECURSIVE PyDictInsertAll(_, _)
PyDictInsertAll(d, pairs) ==
    IF pairs = <<>> THEN d
    ELSE PyDictInsertAll(PyDictSetItem(d, Head(pairs)[1], Head(pairs)[2]),
                         Tail(pairs))

PyDict(pairs) == PyDictInsertAll(EmptyDict, pairs)

\* d.items(): the entries in slot order
RECURSIVE ItemsFrom(_, _)
ItemsFrom(d, i) ==
    IF i \notin PyDictSlots THEN <<>>
    ELSE (IF Len(d[i]) = 0 THEN <<>> ELSE <<d[i]>>) \o ItemsFrom(d, i + 1)

items(d) == ItemsFrom(d, 0)
keys(d) == [i \in 1..Len(items(d)) |-> items(d)[i][1]]
values(d) == [i \in 1..Len(items(d)) |-> items(d)[i][2]]
has_key(d, k) == \E i \in PyDictSlots : Len(d[i]) # 0 /\ d[i][1] = k
getitem(d, k) == d[CHOOSE i \in PyDictSlots : Len(d[i]) # 0 /\ d[i][1] = k][2]

\* d.copy(): a new table, the entries of d inserted in slot order
copy(d) == PyDictInsertAll(EmptyDict, items(d))

\* d.pop(k): [exc, d, value], a KeyError when k is not a key of d.  The
\* slot is left as a dummy, which iteration skips as it skips a free slot.
pop(d, k) ==
    IF ~has_key(d, k) THEN [exc |-> "KeyError", d |-> d, value |-> None]
    ELSE LET i == CHOOSE i \in PyDictSlots : Len(d[i]) # 0 /\ d[i][1] = k
         IN [exc |-> "none", d |-> [d EXCEPT ![i] = NoEntry], value |-> d[i][2]]

-----------------------------------------------------------------------------
(* Share: the access validators.                                           *)

WordChars == Letters \cup Digits \cup {"_"}

\* the {4,32} of valid_useraname_re
UsernameMin == 4
UsernameMax == 32
\* the upper limit of an octet
OctetMax == 255

RECURSIVE WordRun(_)
WordRun(s) ==
    IF s # <<>> /\ Head(s) \in WordChars THEN 1 + WordRun(Tail(s)) ELSE 0

\* re.match('\w{m,n}', s): anchored at the start only; the greedy run of
\* word characters, cut at n, must be at least m long.  The length of the
\* match, or -1 for no match (None).
re_match_word(m, n, s) ==
    LET run == WordRun(s)
    IN IF run >= m THEN (IF run > n THEN n ELSE run) ELSE -1

\* The exception _validate_username ends with, "none" for a normal return.
\* The message of the error is built with _(), a name the module neither
\* defines nor imports: it resolves only when gettext is installed in
\* builtins, and is a NameError otherwise.
_validate_username(access, gettext) ==
    IF re_match_word(UsernameMin, UsernameMax, access) = -1
    THEN (IF gettext THEN "CommandError" ELSE "NameError")
    ELSE "none"

\* one pass of the loop over the segments, from segment i on
RECURSIVE ValidateItems(_, _, _)
ValidateItems(ip_range, i, allow_asterisk) ==
    IF i > Len(ip_range) THEN "none"
    ELSE LET item == ip_range[i]
             n == int(item)
         IN IF n.exc = "none" /\ 0 <= n.value /\ n.value <= OctetMax
            THEN ValidateItems(ip_range, i + 1, allow_asterisk)
            ELSE IF ~(allow_asterisk /\ item = <<"*">>)
                 THEN "CommandError"
                 ELSE ValidateItems(ip_range, i + 1, allow_asterisk)


\* _validate_ip_range as it would be with the wildcard allowed beside a mask
_validate_ip_range_lax(ip_range) ==
    LET parts == Split(ip_range, "/")
    IN IF Len(parts) > 2 THEN "CommandError"
       ELSE LET segments == Split(parts[1], ".")
            IN IF Len(segments) # 4 THEN "CommandError"
               ELSE ValidateItems(segments, 1, TRUE)

\* _validate_ip_range as it would be with the mask checked as a prefix
\* length, an integer in [0,32]
_validate_ip_range_masked(ip_range) ==
    LET parts == Split(ip_range, "/")
    IN IF Len(parts) > 2 THEN "CommandError"
       ELSE LET allow_asterisk == (Len(parts) = 1)
                segments == Split(parts[1], ".")
                mask == int(parts[Len(parts)])
            IN IF Len(segments) # 4 THEN "CommandError"
               ELSE IF Len(parts) = 2
                       /\ ~(mask.exc = "none" /\ 0 <= mask.value
                                               /\ mask.value <= 32)
               THEN "CommandError"
               ELSE ValidateItems(segments, 1, allow_asterisk)

_validate_ip_range(ip_range) ==
    LET parts == Split(ip_range, "/")
    IN IF Len(parts) > 2 THEN "CommandError"
       ELSE LET allow_asterisk == (Len(parts) = 1)
                segments == Split(parts[1], ".")
            IN IF Len(segments) # 4 THEN "CommandError"
               ELSE ValidateItems(segments, 1, allow_asterisk)


\* _validate_access as it would be with every other type checked as an ip
_validate_access_fallthrough(access_type, access, gettext) ==
    IF access_type = "passwd"
    THEN [exc |-> _validate_username(access, gettext),
          consulted |-> <<"_validate_username">>]
    ELSE [exc |-> _validate_ip_range(access),
          consulted |-> <<"_validate_ip_range">>]

\* [exc |-> the exception or "none", consulted |-> the validators run]
_validate_access(access_type, access, gettext) ==
    IF access_type = "ip"
    THEN [exc |-> _validate_ip_range(access),
          consulted |-> <<"_validate_ip_range">>]
    ELSE IF access_type = "passwd"
    THEN [exc |-> _validate_username(access, gettext),
          consulted |-> <<"_validate_username">>]
    ELSE [exc |-> "CommandError", consulted |-> <<>>]

-----------------------------------------------------------------------------
(* The HTTP client and the helpers of cinderclient.base.  An execution is  *)
(* [requests, exc, value]: the requests issued, the exception raised       *)
(* ("none" for a normal return) and the value returned.  rep is the        *)
(* client's answer to the request: [exc, status, body], exc being the      *)
(* exception the client raises for a failed round trip.                    *)

Omitted == [t |-> "omitted"]
\* a parameter's default value
Default(x, d) == IF x = Omitted THEN d ELSE x

\* a Share or Snapshot: the class and the _info dict of the server
Resource(cls, info) == [t |-> cls, info |-> info]
IsResource(x) == x.t \in {"Share", "Snapshot"}

\* '%s' % x
Format(x) == IF x.t = "int" THEN ToString(x.v) ELSE x.v

\* base.getid: the id of a resource, or the value itself when it is an id
getid(obj) == IF IsResource(obj) THEN getitem(obj.info, "id") ELSE obj

\* one round trip of the HTTP client
client_request(method, url, body, rep) ==
    [requests |-> <<[method |-> method, url |-> url, body |-> body]>>,
     exc |-> rep.exc,
     value |-> IF rep.exc = "none" THEN <<rep.status, rep.body>> ELSE <<>>]

\* base.Manager._create: POST, the response_key of the answer as a resource
_create(cls, url, body, response_key, rep) ==
    LET r == client_request("POST", url, body, rep)
    IN IF r.exc # "none" THEN r
       ELSE [r EXCEPT !.value = Resource(cls, getitem(rep.body.v, response_key).v)]

\* base.Manager._get: GET, the response_key of the answer as a resource
_get(cls, url, response_key, rep) ==
    LET r == client_request("GET", url, None, rep)
    IN IF r.exc # "none" THEN r
       ELSE [r EXCEPT !.value = Resource(cls, getitem(rep.body.v, response_key).v)]

\* base.Manager._list: GET, each element of the response_key as a resource
_list(cls, url, response_key, rep) ==
    LET r == client_request("GET", url, None, rep)
        data == getitem(rep.body.v, response_key).v
    IN IF r.exc # "none" THEN r
       ELSE [r EXCEPT !.value =
                 [i \in 1..Len(data) |-> Resource(cls, data[i].v)]]

\* base.Manager._delete: DELETE, nothing returned
_delete(url, rep) ==
    LET r == client_request("DELETE", url, None, rep)
    IN IF r.exc # "none" THEN r ELSE [r EXCEPT !.value = None]

\* base.Manager.run_hooks: no hook is registered
run_hooks(hook_type, body) == body

\* utils.print_dict: one row for each attribute of the dict
print_dict(d) == items(d)

-----------------------------------------------------------------------------
(* urllib.urlencode of Python 2.                                           *)

AlwaysSafe == Letters \cup Digits \cup {"_", ".", "-"}

PercentCode(c) ==
    CASE c = "&" -> "%26"
      [] c = "=" -> "%3D"
      [] c = "/" -> "%2F"
      [] c = "*" -> "%2A"
      [] c = "+" -> "%2B"
      [] c = "?" -> "%3F"

\* urllib.quote_plus: safe characters kept, ' ' as '+', the rest as %XX
RECURSIVE quote_plus(_)
quote_plus(s) ==
    IF s = <<>> THEN ""
    ELSE (IF Head(s) \in AlwaysSafe THEN Head(s)
          ELSE IF Head(s) = " " THEN "+"
          ELSE PercentCode(Head(s))) \o quote_plus(Tail(s))

\* str(x) as the characters of the result
RECURSIVE DigitsOf(_)
DigitsOf(n) ==
    IF n < 10 THEN <<ToString(n)>>
    ELSE Append(DigitsOf(n \div 10), ToString(n % 10))

str(x) ==
    CASE x.t = "int" -> DigitsOf(x.v)
      [] x.t = "None" -> <<"N", "o", "n", "e">>
      [] x.t = "bool" -> IF x.v THEN <<"T", "r", "u", "e">>
                         ELSE <<"F", "a", "l", "s", "e">>
      [] OTHER -> x.v

\* urlencode(query) for a list of (key, value): k=v joined by '&'
RECURSIVE urlencode(_)
urlencode(query) ==
    IF query = <<>> THEN ""
    ELSE LET k == quote_plus(str(Head(query)[1]))
             v == quote_plus(str(Head(query)[2]))
         IN k \o "=" \o v \o
            (IF Len(query) > 1 THEN "&" ELSE "") \o urlencode(Tail(query))

\* the characters of a key of search_opts
Chars(k) ==
    CASE k = "all_tenants" -> <<"a", "l", "l", "_", "t", "e", "n", "a", "n", "t", "s">>
      [] k = "name" -> <<"n", "a", "m", "e">>
      [] k = "status" -> <<"s", "t", "a", "t", "u", "s">>
      [] k = "share_id" -> <<"s", "h", "a", "r", "e", "_", "i", "d">>


\* the comprehension as it would be without its "if value"
TruthyItems_unfiltered(its) ==
    [i \in 1..Len(its) |-> <<PyStr(Chars(its[i][1])), its[i][2]>>]

\* [(key, value) for (key, value) in search_opts.items() if value]
RECURSIVE TruthyItems(_)
TruthyItems(its) ==
    IF its = <<>> THEN <<>>
    ELSE (IF Truthy(Head(its)[2])
          THEN << <<PyStr(Chars(Head(its)[1])), Head(its)[2]>> >>
          ELSE <<>>) \o TruthyItems(Tail(its))

-----------------------------------------------------------------------------
(* ShareManager.                                                           *)


\* ShareManager.create as it would be with the None fields left out
ShareManager_create_sparse(share_proto, size, snapshot_id, name, description, rep) ==
    LET given(p) == p[2] # None
        body == PyDict(<< <<"share", PyDictOf(PyDict(SelectSeq(<<
                    <<"size", size>>,
                    <<"snapshot_id", Default(snapshot_id, None)>>,
                    <<"name", Default(name, None)>>,
                    <<"description", Default(description, None)>>,
                    <<"share_type", share_proto>> >>, given)))>> >>)
    IN _create("Share", "/shares", body, "share", rep)

ShareManager_create(share_proto, size, snapshot_id, name, description, rep) ==
    LET body == PyDict(<< <<"share", PyDictOf(PyDict(<<
                    <<"size", size>>,
                    <<"snapshot_id", Default(snapshot_id, None)>>,
                    <<"name", Default(name, None)>>,
                    <<"description", Default(description, None)>>,
                    <<"share_type", share_proto>> >>))>> >>)
    IN _create("Share", "/shares", body, "share", rep)

ShareManager_get(share_id, rep) ==
    _get("Share", "/shares/" \o Format(share_id), "share", rep)

ShareManager_list(detailed, search_opts, rep) ==
    LET opts == Default(search_opts, None)
        encoded == urlencode(TruthyItems(items(opts.v)))
        query_string == IF Truthy(opts)
                        THEN (IF encoded # "" THEN "?" \o encoded ELSE encoded)
                        ELSE ""
        path == IF Truthy(Default(detailed, PyBool(TRUE)))
                THEN "/shares/detail" \o query_string
                ELSE "/shares" \o query_string
    IN _list("Share", path, "shares", rep)

ShareManager_delete(share, rep) ==
    _delete("/shares/" \o Format(getid(share)), rep)


\* _action as it would be with the request sent again after a failure
_action_retrying(action, share, info, rep) ==
    LET body == run_hooks("modify_body_for_action",
                          PyDict(<< <<action, Default(info, None)>> >>))
        url == "/shares/" \o Format(getid(share)) \o "/action"
        r == client_request("POST", url, body, rep)
    IN IF r.exc # "none" THEN [r EXCEPT !.requests = r.requests \o r.requests]
       ELSE r

_action(action, share, info, rep) ==
    LET body == run_hooks("modify_body_for_action",
                          PyDict(<< <<action, Default(info, None)>> >>))
        url == "/shares/" \o Format(getid(share)) \o "/action"
    IN client_request("POST", url, body, rep)

\* ShareManager.allow as it would be with the check of Share.allow in it
ShareManager_allow_validating(share, access_type, access, rep) ==
    LET checked == _validate_access(access_type.v, access.v, TRUE)
    IN IF checked.exc # "none"
       THEN [requests |-> <<>>, exc |-> checked.exc, value |-> <<>>]
       ELSE _action("os-allow_access", share,
                    PyDictOf(PyDict(<< <<"access_type", access_type>>,
                                       <<"access_to", access>> >>)), rep)

ShareManager_allow(share, access_type, access, rep) ==
    _action("os-allow_access", share,
            PyDictOf(PyDict(<< <<"access_type", access_type>>,
                               <<"access_to", access>> >>)), rep)


\* ShareManager.deny as it would be with the action name of the v1 fake
ShareManager_deny_renamed(share, id, rep) ==
    _action("os-access_deny", share,
            PyDictOf(PyDict(<< <<"access_id", id>> >>)), rep)

ShareManager_deny(share, id, rep) ==
    _action("os-deny_access", share,
            PyDictOf(PyDict(<< <<"access_id", id>> >>)), rep)

\* collections.namedtuple('Access', field_names)(*args): a TypeError when
\* the number of arguments is not the number of fields
namedtuple(field_names, args) ==
    IF Len(args) # Len(field_names)
    THEN [exc |-> "TypeError", value |-> <<>>]
    ELSE [exc |-> "none",
          value |-> [fields |-> field_names, values |-> args]]

ShareManager_access_list(share, rep) ==
    LET r == _action("os-access_list", share, Omitted, rep)
    IN IF r.exc # "none" THEN r
       ELSE LET body == r.value[2]
            IN IF body.t # "dict"
               THEN [r EXCEPT !.exc = "TypeError", !.value = <<>>]
               ELSE IF ~has_key(body.v, "access_list")
               THEN [r EXCEPT !.exc = "KeyError", !.value = <<>>]
               ELSE LET access_list == getitem(body.v, "access_list")
                        t == keys(access_list.v[1].v)
                        made == [i \in 1..Len(access_list.v) |->
                                   namedtuple(t, values(access_list.v[i].v))]
                    IN IF Truthy(access_list)
                       THEN IF \E i \in 1..Len(made) : made[i].exc # "none"
                            THEN [r EXCEPT !.exc = "TypeError", !.value = <<>>]
                            ELSE [r EXCEPT !.value =
                                   [i \in 1..Len(made) |-> made[i].value]]
                       ELSE [r EXCEPT !.value = <<>>]

-----------------------------------------------------------------------------
(* SnapshotManager.                                                        *)

SnapshotManager_create(share_id, force, name, description, rep) ==
    LET body == PyDict(<< <<"share-snapshot", PyDictOf(PyDict(<<
                    <<"share_id", share_id>>,
                    <<"force", Default(force, PyBool(FALSE))>>,
                    <<"name", Default(name, None)>>,
                    <<"description", Default(description, None)>> >>))>> >>)
    IN _create("Snapshot", "/share-snapshots", body, "share-snapshot", rep)

SnapshotManager_get(snapshot_id, rep) ==
    _get("Snapshot", "/share-snapshots/" \o Format(snapshot_id),
         "share-snapshot", rep)

SnapshotManager_list(detailed, search_opts, rep) ==
    LET opts == Default(search_opts, None)
        encoded == urlencode(TruthyItems(items(opts.v)))
        query_string == IF Truthy(opts)
                        THEN (IF encoded # "" THEN "?" \o encoded ELSE encoded)
                        ELSE ""
        path == IF Truthy(Default(detailed, PyBool(TRUE)))
                THEN "/share-snapshots/detail" \o query_string
                ELSE "/share-snapshots" \o query_string
    IN _list("Snapshot", path, "share-snapshots", rep)

SnapshotManager_delete(snapshot, rep) ==
    _delete("/share-snapshots/" \o Format(getid(snapshot)), rep)

-----------------------------------------------------------------------------
(* Share and Snapshot: the resources' own methods.                         *)

NoRequest(exc) == [requests |-> <<>>, exc |-> exc, value |-> <<>>]

\* Share.delete and Snapshot.delete drop the manager's return value
Share_delete(self, rep) == ShareManager_delete(self, rep)


\* Share.allow as it would be with the request sent before the check
Share_allow_unchecked(self, access_type, access, gettext, rep) ==
    LET checked == _validate_access(access_type, access, gettext)
    IN [ex |-> ShareManager_allow(self, PyStr(access_type), PyStr(access), rep),
        consulted |-> checked.consulted]

\* [execution, consulted]
Share_allow(self, access_type, access, gettext, rep) ==
    LET checked == _validate_access(access_type, access, gettext)
    IN IF checked.exc # "none"
       THEN [ex |-> NoRequest(checked.exc), consulted |-> checked.consulted]
       ELSE [ex |-> ShareManager_allow(self, PyStr(access_type), PyStr(access), rep),
             consulted |-> checked.consulted]

Share_deny(self, id, rep) == ShareManager_deny(self, id, rep)

Share_access_list(self, rep) == ShareManager_access_list(self, rep)

Snapshot_delete(self, rep) == SnapshotManager_delete(self, rep)

-----------------------------------------------------------------------------
(* The shell commands that display a share or a snapshot.  A command is    *)
(* [ex, stdout, resource]: the execution, the rows printed, and the        *)
(* resource the command held when it ended (NoResource when the manager    *)
(* gave none).                                                             *)

NoResource == [t |-> "none"]

\* utils.find_resource: the resource of this id, fetched with the manager's
\* get
find_resource(manager, name_or_id, rep) ==
    IF manager = "shares" THEN ShareManager_get(name_or_id, rep)
    ELSE SnapshotManager_get(name_or_id, rep)

_find_share(share, rep) == find_resource("shares", share, rep)

\* [exc, stdout, share]: share is the resource after the display
_print_share(share) ==
    LET info == copy(share.info)
        popped == pop(info, "links")
    IN IF popped.exc # "none"
       THEN [exc |-> popped.exc, stdout |-> <<>>, share |-> share]
       ELSE [exc |-> "none", stdout |-> print_dict(popped.d), share |-> share]

do_share_create(share_protocol, size, snapshot_id, name, description, rep) ==
    LET r == ShareManager_create(share_protocol, size, snapshot_id, name,
                                 description, rep)
        shown == _print_share(r.value)
    IN IF r.exc # "none"
       THEN [ex |-> r, stdout |-> <<>>, resource |-> NoResource]
       ELSE [ex |-> [r EXCEPT !.exc = shown.exc,
                              !.value = IF shown.exc = "none" THEN None ELSE <<>>],
             stdout |-> shown.stdout, resource |-> shown.share]

do_share_show(share, rep) ==
    LET r == _find_share(share, rep)
        shown == _print_share(r.value)
    IN IF r.exc # "none"
       THEN [ex |-> r, stdout |-> <<>>, resource |-> NoResource]
       ELSE [ex |-> [r EXCEPT !.exc = shown.exc,
                              !.value = IF shown.exc = "none" THEN None ELSE <<>>],
             stdout |-> shown.stdout, resource |-> shown.share]

_find_share_snapshot(snapshot, rep) ==
    find_resource("share_snapshots", snapshot, rep)

\* [exc, stdout, snapshot]: snapshot is the resource after the display
_print_share_snapshot(snapshot) ==
    LET info == copy(snapshot.info)
        popped == pop(info, "links")
    IN IF popped.exc # "none"
       THEN [exc |-> popped.exc, stdout |-> <<>>, snapshot |-> snapshot]
       ELSE [exc |-> "none", stdout |-> print_dict(popped.d),
             snapshot |-> snapshot]

do_share_snapshot_show(snapshot, rep) ==
    LET r == _find_share_snapshot(snapshot, rep)
        shown == _print_share_snapshot(r.value)
    IN IF r.exc # "none"
       THEN [ex |-> r, stdout |-> <<>>, resource |-> NoResource]
       ELSE [ex |-> [r EXCEPT !.exc = shown.exc,
                              !.value = IF shown.exc = "none" THEN None ELSE <<>>],
             stdout |-> shown.stdout, resource |-> shown.snapshot]

do_share_snapshot_create(share_id, force, name, description, rep) ==
    LET r == SnapshotManager_create(share_id, force, name, description, rep)
        shown == _print_share_snapshot(r.value)
    IN IF r.exc # "none"
       THEN [ex |-> r, stdout |-> <<>>, resource |-> NoResource]
       ELSE [ex |-> [r EXCEPT !.exc = shown.exc,
                              !.value = IF shown.exc = "none" THEN None ELSE <<>>],
             stdout |-> shown.stdout, resource |-> shown.snapshot]

-----------------------------------------------------------------------------
(* FakeHTTPClient.post_shares_1234_action, the definition in force (the    *)
(* second of the two in the class): the exception it raises, "none" when   *)
(* it returns (202, {}, None).                                             *)

post_shares_1234_action(body) ==
    IF Len(keys(body)) # 1 THEN "AssertionError"
    ELSE LET action == keys(body)[1]
             payload == getitem(body, action)
         IN IF action = "os-allow_access"
            THEN (IF payload.t # "dict" THEN "AttributeError"
                  ELSE IF keys(payload.v) = <<"access_type", "access_to">>
                  THEN "none" ELSE "AssertionError")
            ELSE IF action = "os-access_deny"
            THEN (IF payload.t # "dict" THEN "AttributeError"
                  ELSE IF keys(payload.v) = <<"access_id">>
                  THEN "none" ELSE "AssertionError")
            ELSE IF action = "os-access_list"
            THEN (IF payload = None THEN "none" ELSE "AssertionError")
            ELSE "AssertionError: Unexpected share action"

-----------------------------------------------------------------------------
(* The inputs of the calls.                                                *)

\* the pieces joined by sep, as str.join does
RECURSIVE JoinWith(_, _)
JoinWith(parts, sep) ==
    IF parts = <<>> THEN <<>>
    ELSE IF Len(parts) = 1 THEN parts[1]
    ELSE parts[1] \o <<sep>> \o JoinWith(Tail(parts), sep)

\* segments of an address: in range, out of range, wildcard, not a number,
\* empty, negative, padded with a blank
Octets ==
    {<<"0">>, <<"2", "5", "5">>, <<"2", "5", "6">>, <<"*">>, <<"x">>, <<>>,
     <<"-", "1">>, <<" ", "9">>}
FewOctets == {<<"0">>, <<"*">>}
Masks == {<<"2", "4">>, <<"9", "9">>, <<"x">>, <<>>}

Addresses ==
    {JoinWith(a, ".") : a \in [1..4 -> Octets]}
    \cup UNION {{JoinWith(a, ".") : a \in [1..n -> FewOctets]} :
                n \in (1..MaxSegments) \ {4}}

\* what follows the address: nothing, one mask, or several
MaskLists ==
    {<<>>} \cup {<<m>> : m \in Masks}
    \cup {[i \in 1..n |-> <<"2", "4">>] : n \in 2..MaxSlashes}

IpRanges == {JoinWith(<<a>> \o ms, "/") : a \in Addresses, ms \in MaskLists}

WordCycle == <<"a", "_", "7", "Z">>
WordRunOf(n) == [i \in 1..n |-> WordCycle[((i - 1) % 4) + 1]]
UserTails ==
    {<<>>, <<"-">>, <<"-", "r", "o", "o", "t">>, <<" ", "u", "s", "e", "r">>}
Usernames == {WordRunOf(n) \o tl : n \in 0..MaxWordRun, tl \in UserTails}

SampleAccess ==
    {<<"1", "0", ".", "0", ".", "0", ".", "2">>,
     <<"1", "0", ".", "0", ".", "0", ".", "*", "/", "2", "4">>,
     <<"1", "0", ".", "0", ".", "0", ".", "0", "/", "9", "9">>,
     <<"a", "d", "m", "i", "n">>, <<"a", "b">>, <<>>}

AccessTypes == {"ip", "passwd", "domain", "cert"}
AccessOf(access_type) ==
    CASE access_type = "ip" -> IpRanges \cup SampleAccess
      [] access_type = "passwd" -> Usernames \cup SampleAccess
      [] OTHER -> SampleAccess

ShareIds == {PyInt(1234), PyStr("7f3a")}
SnapshotIds == {PyInt(55), PyStr("s-1")}
RuleIds == {PyInt(3), PyStr("r1")}
WithId(cls, id) == Resource(cls, PyDict(<< <<"id", id>> >>))
Shares == {WithId("Share", i) : i \in ShareIds}
Snapshots == {WithId("Snapshot", i) : i \in SnapshotIds}

Optional(S) == {Omitted, None} \cup S
Names == {PyStr("nas")}
Descriptions == {PyStr("scratch")}
Protocols == {PyStr("NFS"), PyStr("CIFS")}
Sizes == {PyInt(1), PyInt(5)}

\* search options: each key absent, or present with a false or a true value
OptionValues(k) ==
    CASE k = "all_tenants" -> {PyInt(0), PyInt(1)}
      [] k = "name" -> {None, PyStr(<<>>), PyStr(<<"a", " ", "b">>)}
      [] k = "status" ->
            {None, PyStr(<<"a", "v", "a", "i", "l", "a", "b", "l", "e">>),
             PyStr(<<"u", "p", "&", "x", "=", "1">>)}
      [] k = "share_id" -> {PyStr(<<"7", "f", "3", "a">>)}
SearchKeys == <<"all_tenants", "name", "status", "share_id">>
Absent == [t |-> "absent"]

\* the pairs of a choice c of a value, or Absent, for each key, in key order
RECURSIVE PairsOf(_, _)
PairsOf(c, i) ==
    IF i > Len(SearchKeys) THEN <<>>
    ELSE (IF c[i] = Absent THEN <<>> ELSE << <<SearchKeys[i], c[i]>> >>)
         \o PairsOf(c, i + 1)

SearchOpts ==
    {Omitted, None} \cup
    {PyDictOf(PyDict(PairsOf(c, 1))) :
        c \in {f \in [1..Len(SearchKeys) ->
                        {Absent} \cup UNION {OptionValues(SearchKeys[i]) :
                                             i \in 1..Len(SearchKeys)}] :
               \A i \in 1..Len(SearchKeys) :
                   f[i] = Absent \/ f[i] \in OptionValues(SearchKeys[i])}}

Detailed == {Omitted, PyBool(TRUE), PyBool(FALSE)}

-----------------------------------------------------------------------------
(* The answers of the HTTP client.                                         *)

OkReply(status, body) == [exc |-> "none", status |-> status, body |-> body]
FailReply(exc, status) == [exc |-> exc, status |-> status, body |-> None]
NoReply == [exc |-> "unused", status |-> 0, body |-> None]
Failures == {FailReply("NotFound", 404), FailReply("HttpError", 500)}

JsonObject(pairs) == PyDictOf(PyDict(pairs))

CreateReplies(key) ==
    {OkReply(202, JsonObject(<< <<key, JsonObject(<<>>)>> >>)),
     OkReply(200, JsonObject(<< <<key, JsonObject(<<
         <<"id", PyInt(1234)>>, <<"links", PyList(<<>>)>> >>)>> >>))}
    \cup Failures

GetReplies(key) ==
    {OkReply(200, JsonObject(<< <<key, JsonObject(<<
         <<"id", PyInt(1234)>>, <<"name", PyStr("sample-volume")>> >>)>> >>)),
     OkReply(200, JsonObject(<< <<key, JsonObject(<<
         <<"id", PyInt(1234)>>, <<"links", PyList(<<>>)>>,
         <<"name", PyStr("nas")>> >>)>> >>))}
    \cup Failures

ListReplies(key) ==
    {OkReply(200, JsonObject(<< <<key, PyList(<<>>)>> >>)),
     OkReply(200, JsonObject(<< <<key, PyList(<<
         JsonObject(<< <<"id", PyInt(1234)>>,
                       <<"name", PyStr("sharename")>> >>) >>)>> >>))}
    \cup Failures

DeleteReplies == {OkReply(202, None)} \cup Failures
ActionReplies == {OkReply(202, None)} \cup Failures

\* an access rule as the server writes it: the same three fields, in any
\* order
RuleKeys == <<"id", "state", "created_at">>
RuleValue(k, n) ==
    CASE k = "id" -> PyStr(IF n = 1 THEN "r1" ELSE "r2")
      [] k = "state" -> PyStr("active")
      [] k = "created_at" -> PyStr("t0")
Orders == {p \in [1..Len(RuleKeys) -> 1..Len(RuleKeys)] :
              \A i, j \in 1..Len(RuleKeys) : i # j => p[i] # p[j]}
Rules ==
    {[i \in 1..Len(RuleKeys) |-> <<RuleKeys[p[i]], RuleValue(RuleKeys[p[i]], n)>>] :
        p \in Orders, n \in 1..2}
RuleLists == UNION {[1..n -> Rules] : n \in 0..MaxRules}

AccessListReply(rules) ==
    OkReply(202, JsonObject(<< <<"access_list",
        PyList([i \in 1..Len(rules) |-> JsonObject(rules[i])])>> >>))
AccessListReplies ==
    {AccessListReply(rules) : rules \in RuleLists} \cup ActionReplies

-----------------------------------------------------------------------------
(* The state machine: a call runs to its end in one step, Return makes     *)
(* the client ready for the next call.                                     *)

NoCall == [op |-> "none", args |-> <<>>]
NoOutcome == [exc |-> "none", value |-> <<>>]

Init ==
    /\ pc = "idle"
    /\ call = NoCall
    /\ requests = <<>>
    /\ outcome = NoOutcome
    /\ consulted = <<>>
    /\ reply = NoReply
    /\ gettext_installed \in BOOLEAN
    /\ stdout = <<>>
    /\ resource = NoResource

\* the call op(args) ran as execution ex, answered by rep
Ran(op, args, ex, checked, rep) ==
    /\ pc' = "done"
    /\ call' = [op |-> op, args |-> args]
    /\ requests' = ex.requests
    /\ outcome' = [exc |-> ex.exc, value |-> ex.value]
    /\ consulted' = checked
    /\ reply' = IF ex.requests = <<>> THEN NoReply ELSE rep
    /\ UNCHANGED <<gettext_installed, stdout, resource>>

\* the shell command op(args) ran as r, answered by rep
RanCommand(op, args, r, rep) ==
    /\ pc' = "done"
    /\ call' = [op |-> op, args |-> args]
    /\ requests' = r.ex.requests
    /\ outcome' = [exc |-> r.ex.exc, value |-> r.ex.value]
    /\ consulted' = <<>>
    /\ reply' = IF r.ex.requests = <<>> THEN NoReply ELSE rep
    /\ stdout' = r.stdout
    /\ resource' = r.resource
    /\ UNCHANGED gettext_installed

ShareAllow ==
    /\ pc = "idle"
    /\ \E self \in Shares, access_type \in AccessTypes, rep \in ActionReplies :
         \E access \in AccessOf(access_type) :
           LET r == Share_allow(self, access_type, access, gettext_installed, rep)
           IN Ran("Share.allow",
                  [share |-> self, access_type |-> access_type, access |-> access],
                  r.ex, r.consulted, rep)

ShareDeny ==
    /\ pc = "idle"
    /\ \E self \in Shares, id \in RuleIds, rep \in ActionReplies :
           Ran("Share.deny", [share |-> self, id |-> id],
               Share_deny(self, id, rep), <<>>, rep)

ShareAccessList ==
    /\ pc = "idle"
    /\ \E self \in Shares, rep \in AccessListReplies :
           Ran("Share.access_list", [share |-> self],
               Share_access_list(self, rep), <<>>, rep)

ShareDelete ==
    /\ pc = "idle"
    /\ \E self \in Shares, rep \in DeleteReplies :
           Ran("Share.delete", [share |-> self], Share_delete(self, rep), <<>>, rep)

SnapshotDelete ==
    /\ pc = "idle"
    /\ \E self \in Snapshots, rep \in DeleteReplies :
           Ran("Snapshot.delete", [snapshot |-> self],
               Snapshot_delete(self, rep), <<>>, rep)

ManagerCreate ==
    /\ pc = "idle"
    /\ \E share_proto \in Protocols, size \in Sizes,
          snapshot_id \in Optional({PyStr("s-1")}), name \in Optional(Names),
          description \in Optional(Descriptions), rep \in CreateReplies("share") :
           Ran("ShareManager.create",
               [share_proto |-> share_proto, size |-> size,
                snapshot_id |-> snapshot_id, name |-> name,
                description |-> description],
               ShareManager_create(share_proto, size, snapshot_id, name,
                                   description, rep), <<>>, rep)

ManagerGet ==
    /\ pc = "idle"
    /\ \E share_id \in ShareIds, rep \in GetReplies("share") :
           Ran("ShareManager.get", [share_id |-> share_id],
               ShareManager_get(share_id, rep), <<>>, rep)

ManagerList ==
    /\ pc = "idle"
    /\ \E detailed \in Detailed, search_opts \in SearchOpts,
          rep \in ListReplies("shares") :
           Ran("ShareManager.list",
               [detailed |-> detailed, search_opts |-> search_opts],
               ShareManager_list(detailed, search_opts, rep), <<>>, rep)

ManagerDelete ==
    /\ pc = "idle"
    /\ \E share \in Shares \cup ShareIds, rep \in DeleteReplies :
           Ran("ShareManager.delete", [share |-> share],
               ShareManager_delete(share, rep), <<>>, rep)

ManagerAllow ==
    /\ pc = "idle"
    /\ \E share \in Shares \cup ShareIds, access_type \in AccessTypes,
          access \in SampleAccess, rep \in ActionReplies :
           Ran("ShareManager.allow",
               [share |-> share, access_type |-> access_type, access |-> access],
               ShareManager_allow(share, PyStr(access_type), PyStr(access), rep),
               <<>>, rep)

ManagerDeny ==
    /\ pc = "idle"
    /\ \E share \in Shares \cup ShareIds, id \in RuleIds, rep \in ActionReplies :
           Ran("ShareManager.deny", [share |-> share, id |-> id],
               ShareManager_deny(share, id, rep), <<>>, rep)

ManagerAccessList ==
    /\ pc = "idle"
    /\ \E share \in Shares \cup ShareIds, rep \in AccessListReplies :
           Ran("ShareManager.access_list", [share |-> share],
               ShareManager_access_list(share, rep), <<>>, rep)

SnapshotManagerCreate ==
    /\ pc = "idle"
    /\ \E share_id \in ShareIds, force \in {Omitted, PyBool(TRUE), PyBool(FALSE)},
          name \in Optional(Names), description \in Optional(Descriptions),
          rep \in CreateReplies("share-snapshot") :
           Ran("SnapshotManager.create",
               [share_id |-> share_id, force |-> force, name |-> name,
                description |-> description],
               SnapshotManager_create(share_id, force, name, description, rep),
               <<>>, rep)

SnapshotManagerGet ==
    /\ pc = "idle"
    /\ \E snapshot_id \in SnapshotIds, rep \in GetReplies("share-snapshot") :
           Ran("SnapshotManager.get", [snapshot_id |-> snapshot_id],
               SnapshotManager_get(snapshot_id, rep), <<>>, rep)

SnapshotManagerList ==
    /\ pc = "idle"
    /\ \E detailed \in Detailed, search_opts \in SearchOpts,
          rep \in ListReplies("share-snapshots") :
           Ran("SnapshotManager.list",
               [detailed |-> detailed, search_opts |-> search_opts],
               SnapshotManager_list(detailed, search_opts, rep), <<>>, rep)

SnapshotManagerDelete ==
    /\ pc = "idle"
    /\ \E snapshot \in Snapshots \cup SnapshotIds, rep \in DeleteReplies :
           Ran("SnapshotManager.delete", [snapshot |-> snapshot],
               SnapshotManager_delete(snapshot, rep), <<>>, rep)

DoShareCreate ==
    /\ pc = "idle"
    /\ \E share_protocol \in Protocols, size \in Sizes,
          snapshot_id \in {None, PyStr("s-1")}, name \in {None} \cup Names,
          description \in {None} \cup Descriptions,
          rep \in CreateReplies("share") :
           RanCommand("do_share_create",
               [share_protocol |-> share_protocol, size |-> size,
                snapshot_id |-> snapshot_id, name |-> name,
                description |-> description],
               do_share_create(share_protocol, size, snapshot_id, name,
                               description, rep), rep)

DoShareShow ==
    /\ pc = "idle"
    /\ \E share \in ShareIds, rep \in GetReplies("share") :
           RanCommand("do_share_show", [share |-> share],
                      do_share_show(share, rep), rep)

DoShareSnapshotShow ==
    /\ pc = "idle"
    /\ \E snapshot \in SnapshotIds, rep \in GetReplies("share-snapshot") :
           RanCommand("do_share_snapshot_show", [snapshot |-> snapshot],
                      do_share_snapshot_show(snapshot, rep), rep)

DoShareSnapshotCreate ==
    /\ pc = "idle"
    /\ \E share_id \in ShareIds, force \in {PyBool(FALSE), PyBool(TRUE)},
          name \in {None} \cup Names, description \in {None} \cup Descriptions,
          rep \in CreateReplies("share-snapshot") :
           RanCommand("do_share_snapshot_create",
               [share_id |-> share_id, force |-> force, name |-> name,
                description |-> description],
               do_share_snapshot_create(share_id, force, name, description, rep),
               rep)

Return ==
    /\ pc = "done"
    /\ pc' = "idle"
    /\ call' = NoCall
    /\ requests' = <<>>
    /\ outcome' = NoOutcome
    /\ consulted' = <<>>
    /\ reply' = NoReply
    /\ stdout' = <<>>
    /\ resource' = NoResource
    /\ UNCHANGED gettext_installed

Next ==
    \/ ShareAllow \/ ShareDeny \/ ShareAccessList \/ ShareDelete
    \/ SnapshotDelete
    \/ ManagerCreate \/ ManagerGet \/ ManagerList \/ ManagerDelete
    \/ ManagerAllow \/ ManagerDeny \/ ManagerAccessList
    \/ SnapshotManagerCreate \/ SnapshotManagerGet \/ SnapshotManagerList
    \/ SnapshotManagerDelete
    \/ DoShareCreate \/ DoShareShow
    \/ DoShareSnapshotShow \/ DoShareSnapshotCreate
    \/ Return

Spec == Init /\ [][Next]_vars

-----------------------------------------------------------------------------
(* What the claims are stated in.                                          *)

Done(op) == pc = "done" /\ call.op = op

\* the text of an id in a URL
IdText(id) ==
    CASE id = PyInt(1234) -> "1234"
      [] id = PyStr("7f3a") -> "7f3a"
      [] id = PyInt(55) -> "55"
      [] id = PyStr("s-1") -> "s-1"

\* the id a call names: the id itself, or the id of the resource passed
NamedId(x) ==
    IF x \in ShareIds \cup SnapshotIds THEN x
    ELSE CHOOSE id \in ShareIds \cup SnapshotIds : x = WithId(x.t, id)

KeySet(d) == {d[i][1] : i \in {j \in PyDictSlots : Len(d[j]) # 0}}

\* the request is the action on share id, with this payload under this name
IsAction(req, id, name) ==
    /\ req.method = "POST"
    /\ req.url = "/shares/" \o IdText(id) \o "/action"
    /\ KeySet(req.body) = {name}

Payload(req, name) == getitem(req.body, name)

\* a decimal numeral, and the number it writes
IsNumeral(t) == t # <<>> /\ \A i \in 1..Len(t) : t[i] \in Digits
RECURSIVE Pow10(_)
Pow10(n) == IF n = 0 THEN 1 ELSE 10 * Pow10(n - 1)
RECURSIVE PlaceValue(_, _)
PlaceValue(t, i) ==
    IF i > Len(t) THEN 0
    ELSE DigitVal(t[i]) * Pow10(Len(t) - i) + PlaceValue(t, i + 1)

\* an integer literal: a numeral, an optional sign before it, blanks around
Core(t, i, j) ==
    /\ i <= j
    /\ \A h \in 1..Len(t) : (h < i \/ h > j) => t[h] = " "
    /\ \/ IsNumeral(SubSeq(t, i, j))
       \/ t[i] \in {"+", "-"} /\ IsNumeral(SubSeq(t, i + 1, j))
IsIntegerLiteral(t) == \E i, j \in 1..Len(t) : Core(t, i, j)
LiteralValue(t) ==
    LET ij == CHOOSE ij \in (1..Len(t)) \X (1..Len(t)) : Core(t, ij[1], ij[2])
        i == ij[1]
        j == ij[2]
    IN IF t[i] = "-" THEN 0 - PlaceValue(SubSeq(t, i + 1, j), 1)
       ELSE IF t[i] = "+" THEN PlaceValue(SubSeq(t, i + 1, j), 1)
       ELSE PlaceValue(SubSeq(t, i, j), 1)

\* a segment that is an integer in [0,255], or the wildcard where allowed
OctetOk(t, unmasked) ==
    \/ IsIntegerLiteral(t) /\ LiteralValue(t) \in 0..255
    \/ unmasked /\ t = <<"*">>

\* an acceptable range: at most one '/', four segments before it, each one
\* an octet or, when there is no '/', the wildcard
IpOk(s) ==
    LET parts == Split(s, "/")
        segments == Split(parts[1], ".")
    IN /\ Len(parts) <= 2
       /\ Len(segments) = 4
       /\ \A i \in 1..4 : OctetOk(segments[i], Len(parts) = 1)

WildcardWithMask == <<"1", "0", ".", "0", ".", "0", ".", "*", "/", "2", "4">>

-----------------------------------------------------------------------------
(* The claims.                                                             *)

\* C1: Share.allow validates first.  When the validator rejects the pair
\* (as it does ('ip', '10.0.0.*/24')), allow raises the validator's error
\* and issues no request; when it accepts, allow issues exactly one request,
\* the os-allow_access action on that share with that type and value.
C1_AllowValidatesFirst ==
    Done("Share.allow") =>
        LET a == call.args
            checked == _validate_access(a.access_type, a.access,
                                        gettext_installed)
        IN /\ checked.exc # "none" =>
                 requests = <<>> /\ outcome.exc = checked.exc
           /\ (a.access_type = "ip" /\ a.access = WildcardWithMask) =>
                 requests = <<>> /\ outcome.exc = "CommandError"
           /\ checked.exc = "none" =>
                 /\ Len(requests) = 1
                 /\ IsAction(requests[1], NamedId(a.share), "os-allow_access")
                 /\ LET info == Payload(requests[1], "os-allow_access").v
                    IN /\ getitem(info, "access_type") = PyStr(a.access_type)
                       /\ getitem(info, "access_to") = PyStr(a.access)

C1_Witness ==
    /\ Done("Share.allow")
    /\ call.args.access_type = "ip"
    /\ call.args.access = WildcardWithMask
    /\ outcome.exc = "CommandError"
    /\ requests = <<>>

\* C2: IP-range validation.  A range passes exactly when it has at most one
\* '/', its address part has exactly four dot-separated segments, and each
\* segment is an integer in [0,255] (a literal int() reads: decimal digits,
\* an optional sign, blanks around) or, in a range with no '/', the wildcard
\* '*'; every other range fails with CommandError.
C2_IpRangeValidation ==
    (Done("Share.allow") /\ call.args.access_type = "ip") =>
        /\ IpOk(call.args.access) <=> requests # <<>>
        /\ ~IpOk(call.args.access) => outcome.exc = "CommandError"

C2_Witness ==
    /\ Done("Share.allow")
    /\ call.args.access_type = "ip"
    /\ call.args.access = <<"0", ".", "2", "5", "5", ".", "*", ".", "0">>
    /\ requests # <<>>

\* C3: _validate_access with a type other than 'ip' and 'passwd' fails with
\* CommandError for every value and consults no validator; with 'ip' only
\* the IP-range validator is consulted and decides, with 'passwd' only the
\* user-name validator.
C3_AccessTypeDispatch ==
    Done("Share.allow") =>
        LET a == call.args
        IN /\ a.access_type \notin {"ip", "passwd"} =>
                 /\ consulted = <<>>
                 /\ outcome.exc = "CommandError"
                 /\ requests = <<>>
           /\ a.access_type = "ip" =>
                 /\ consulted = <<"_validate_ip_range">>
                 /\ requests = <<>> <=> _validate_ip_range(a.access) # "none"
           /\ a.access_type = "passwd" =>
                 /\ consulted = <<"_validate_username">>
                 /\ requests = <<>> <=>
                        _validate_username(a.access, gettext_installed) # "none"

C3_Witness ==
    /\ Done("Share.allow")
    /\ call.args.access_type = "domain"
    /\ call.args.access = <<"1", "0", ".", "0", ".", "0", ".", "2">>
    /\ outcome.exc = "CommandError"
    /\ consulted = <<>>

\* C4: user-name validation.  A name that starts with at least 4 word
\* characters passes whatever follows; a name that starts with fewer than 4
\* fails, and fails with CommandError.
C4_UsernameValidation ==
    (Done("Share.allow") /\ call.args.access_type = "passwd") =>
        LET s == call.args.access
            word(n) == n <= Len(s) /\ \A i \in 1..n : s[i] \in WordChars
        IN /\ word(4) => requests # <<>>
           /\ ~word(4) => requests = <<>> /\ outcome.exc = "CommandError"

ActionOps ==
    {"Share.allow", "Share.deny", "Share.access_list",
     "ShareManager.allow", "ShareManager.deny", "ShareManager.access_list"}

Wire(v) ==
    CASE v = PyInt(1) -> "1"
      [] v = PyStr(<<"a", " ", "b">>) -> "a+b"
      [] v = PyStr(<<"a", "v", "a", "i", "l", "a", "b", "l", "e">>) -> "available"
      [] v = PyStr(<<"u", "p", "&", "x", "=", "1">>) -> "up%26x%3D1"
      [] v = PyStr(<<"7", "f", "3", "a">>) -> "7f3a"

\* the pairs of the search options whose value is true
TruePairs(opts) ==
    IF opts \in {Omitted, None} THEN {}
    ELSE {<<k, getitem(opts.v, k)>> :
            k \in {h \in KeySet(opts.v) :
                     getitem(opts.v, h) \notin {None, PyStr(<<>>), PyInt(0)}}}

RECURSIVE JoinPairs(_)
JoinPairs(q) ==
    IF q = <<>> THEN ""
    ELSE q[1][1] \o "=" \o Wire(q[1][2]) \o
         (IF Len(q) > 1 THEN "&" \o JoinPairs(Tail(q)) ELSE "")

\* the paths that carry exactly the pairs of S, in any order
PathsWith(base, S) ==
    IF S = {} THEN {base}
    ELSE {base \o "?" \o JoinPairs(q) :
            q \in {f \in [1..Cardinality(S) -> S] :
                     \A i, j \in 1..Cardinality(S) : i # j => f[i] # f[j]}}

\* C6: list requests /<collection>/detail when detailed is true (the
\* default) and /<collection> otherwise, followed by a query string of
\* exactly the search options whose value is true, and by nothing, not even
\* '?', when there is no such option or no search_opts.
C6_ListPath ==
    (pc = "done" /\ call.op \in {"ShareManager.list", "SnapshotManager.list"}) =>
        LET collection == IF call.op = "ShareManager.list"
                          THEN "/shares" ELSE "/share-snapshots"
            base == IF call.args.detailed \in {Omitted, PyBool(TRUE)}
                    THEN collection \o "/detail" ELSE collection
        IN /\ Len(requests) = 1
           /\ requests[1].method = "GET"
           /\ requests[1].url \in PathsWith(base, TruePairs(call.args.search_opts))

C6_Witness ==
    /\ Done("ShareManager.list")
    /\ call.args.detailed = PyBool(TRUE)
    /\ call.args.search_opts =
           PyDictOf(PyDict(<< <<"all_tenants", PyInt(0)>>,
                              <<"name", PyStr(<<>>)>>,
                              <<"status", PyStr(<<"a", "v", "a", "i", "l",
                                                  "a", "b", "l", "e">>)>> >>))
    /\ requests[1].url = "/shares/detail?status=available"

\* the value of field k of a record of access_list
FieldOf(rec, k) ==
    rec.values[CHOOSE j \in 1..Len(rec.fields) : rec.fields[j] = k]

\* C7: access_list returns one record per element of the server's
\* access_list array, in the same order, each field k of a record holding
\* the element's value for k, whatever order the elements list their keys in;
\* an empty array gives an empty sequence.
C7_AccessListRoundTrip ==
    (/\ pc = "done"
     /\ call.op \in {"Share.access_list", "ShareManager.access_list"}
     /\ reply.exc = "none"
     /\ reply.body.t = "dict") =>
        LET array == getitem(reply.body.v, "access_list").v
        IN /\ outcome.exc = "none"
           /\ Len(outcome.value) = Len(array)
           /\ \A i \in 1..Len(array) : \A k \in KeySet(array[i].v) :
                  /\ \E j \in 1..Len(outcome.value[i].fields) :
                         outcome.value[i].fields[j] = k
                  /\ FieldOf(outcome.value[i], k) = getitem(array[i].v, k)

\* C8: the body sent by allow, deny and access_list on share 1234 is one the
\* fake's action handler recognises: it raises nothing.
C8_FakeRecognisesActions ==
    (/\ pc = "done"
     /\ call.op \in ActionOps
     /\ NamedId(call.args.share) = PyInt(1234)
     /\ requests # <<>>) =>
        post_shares_1234_action(requests[1].body) = "none"

ManagerOps ==
    {"ShareManager.create", "ShareManager.get", "ShareManager.list",
     "ShareManager.delete", "ShareManager.allow", "ShareManager.deny",
     "ShareManager.access_list", "SnapshotManager.create",
     "SnapshotManager.get", "SnapshotManager.list", "SnapshotManager.delete"}

\* C9: a manager method issues at most one request; when the round trip
\* fails, the client's error is the method's error, nothing is returned and
\* no second request is issued.
C9_SingleRoundTrip ==
    (pc = "done" /\ call.op \in ManagerOps) =>
        /\ Len(requests) <= 1
        /\ reply.exc \in {"NotFound", "HttpError"} =>
              /\ Len(requests) = 1
              /\ outcome.exc = reply.exc
              /\ outcome.value = <<>>

C9_Witness ==
    /\ Done("ShareManager.access_list")
    /\ reply.exc = "HttpError"
    /\ Len(requests) = 1
    /\ outcome.exc = "HttpError"

\* C10: create POSTs a body with one key, the singular resource name, to the
\* collection path: {share: {size, snapshot_id, name, description,
\* share_type}} to /shares with share_type the share_proto argument,
\* {share-snapshot: {share_id, force, name, description}} to
\* /share-snapshots; every field is present, an omitted or None argument as
\* null, an omitted force as False.
C10_CreateBody ==
    /\ Done("ShareManager.create") =>
          /\ Len(requests) = 1
          /\ requests[1].method = "POST"
          /\ requests[1].url = "/shares"
          /\ KeySet(requests[1].body) = {"share"}
          /\ LET f == getitem(requests[1].body, "share").v
                 a == call.args
             IN /\ KeySet(f) = {"size", "snapshot_id", "name", "description",
                                "share_type"}
                /\ getitem(f, "size") = a.size
                /\ getitem(f, "share_type") = a.share_proto
                /\ \A k \in {"snapshot_id", "name", "description"} :
                       getitem(f, k) = IF a[k] = Omitted THEN None ELSE a[k]
    /\ Done("SnapshotManager.create") =>
          /\ Len(requests) = 1
          /\ requests[1].method = "POST"
          /\ requests[1].url = "/share-snapshots"
          /\ KeySet(requests[1].body) = {"share-snapshot"}
          /\ LET f == getitem(requests[1].body, "share-snapshot").v
                 a == call.args
             IN /\ KeySet(f) = {"share_id", "force", "name", "description"}
                /\ getitem(f, "share_id") = a.share_id
                /\ getitem(f, "force") =
                       IF a.force = Omitted THEN PyBool(FALSE) ELSE a.force
                /\ \A k \in {"name", "description"} :
                       getitem(f, k) = IF a[k] = Omitted THEN None ELSE a[k]

C10_Witness ==
    /\ Done("ShareManager.create")
    /\ call.args.name = Omitted
    /\ call.args.description = None
    /\ call.args.snapshot_id = PyStr("s-1")
    /\ getitem(getitem(requests[1].body, "share").v, "name") = None
    /\ getitem(getitem(requests[1].body, "share").v, "share_type")
           = call.args.share_proto

\* the commands that display a resource, and the key their answer is under
DisplayOps ==
    {"do_share_create", "do_share_show",
     "do_share_snapshot_create", "do_share_snapshot_show"}
ResponseKey(op) ==
    IF op \in {"do_share_create", "do_share_show"} THEN "share"
    ELSE "share-snapshot"

\* the attributes the server sent for the resource of the command that ran
SentInfo == getitem(reply.body.v, ResponseKey(call.op)).v
Printed == {stdout[i] : i \in 1..Len(stdout)}
RowsOf(info) == {info[i] : i \in {j \in PyDictSlots : Len(info[j]) # 0}}

\* C11: a create or show command whose request succeeded displays the
\* resource whether or not it has a 'links' attribute: the command ends
\* without an exception, it prints one row for every attribute other than
\* 'links', and the resource's own attribute dictionary is as the server
\* sent it.
C11_DisplayStripsLinks ==
    (pc = "done" /\ call.op \in DisplayOps /\ reply.exc = "none") =>
        /\ outcome.exc = "none"
        /\ Printed = {row \in RowsOf(SentInfo) : row[1] # "links"}
        /\ resource.info = SentInfo

\* the part of C11 that holds: a resource that has 'links' is displayed
\* without it and is left as it was
C11_WithLinks ==
    (pc = "done" /\ call.op \in DisplayOps /\ reply.exc = "none"
        /\ has_key(SentInfo, "links")) =>
        /\ outcome.exc = "none"
        /\ Printed = {row \in RowsOf(SentInfo) : row[1] # "links"}
        /\ Printed # RowsOf(SentInfo)
        /\ resource.info = SentInfo

\* the display of a resource without 'links' ends in KeyError, nothing printed
C11_WithoutLinks ==
    (pc = "done" /\ call.op \in DisplayOps /\ reply.exc = "none"
        /\ ~has_key(SentInfo, "links")) =>
        /\ outcome.exc = "KeyError"
        /\ stdout = <<>>
        /\ resource.info = SentInfo

\* masks of every kind: a prefix length, out of range, negative, empty,
\* blank, not a number, a wildcard, a dotted netmask
AnyMasks ==
    Masks \cup {<<"3", "3">>, <<"-", "1">>, <<" ">>, <<"*">>,
                <<"2", "5", "5", ".", "0", ".", "0", ".", "0">>,
                <<"a", ".", "b">>}

\* an address alone decides: four segments, each an integer in [0,255]
AddrOk(addr) ==
    LET segments == Split(addr, ".")
    IN Len(segments) = 4 /\ \A i \in 1..4 : OctetOk(segments[i], FALSE)

AddrOf(access) == Split(access, "/")[1]
MaskOf(access) == Split(access, "/")[2]

\* C12: the mask is opaque.  A range addr/mask with exactly one '/' is
\* accepted exactly when addr has four dot-separated segments, each an
\* integer in [0,255] ('*' is not accepted), and is rejected with
\* CommandError otherwise; the validator gives the same verdict for the
\* same addr under every other mask, be it empty, not a number or out of
\* range.
C12_MaskIsOpaque ==
    (Done("Share.allow") /\ call.args.access_type = "ip"
        /\ Len(Split(call.args.access, "/")) = 2) =>
        LET addr == AddrOf(call.args.access)
        IN /\ AddrOk(addr) <=> requests # <<>>
           /\ ~AddrOk(addr) => outcome.exc = "CommandError"
           /\ \A mask \in AnyMasks :
                 (_validate_ip_range(addr \o <<"/">> \o mask) = "none")
                     <=> requests # <<>>

\* '10.0.0.0/99' is accepted
C12_Witness ==
    /\ Done("Share.allow")
    /\ call.args.access_type = "ip"
    /\ call.args.access
         = <<"1", "0", ".", "0", ".", "0", ".", "0", "/", "9", "9">>
    /\ outcome.exc = "none"
    /\ Len(requests) = 1

\* further cases of C12: an empty and a non-numeric mask are accepted, and a
\* wildcard beside a mask is rejected whatever the mask
C12_OtherMasksReached ==
    /\ Done("Share.allow")
    /\ call.args.access_type = "ip"
    /\ Len(Split(call.args.access, "/")) = 2
    /\ \/ MaskOf(call.args.access) = <<>> /\ requests # <<>>
       \/ MaskOf(call.args.access) = <<"x">> /\ requests # <<>>

\* the operations on access rules other than Share.allow, and the action
\* each one requests
UnvalidatedOps == ActionOps \ {"Share.allow"}
ActionOf(op) ==
    CASE op = "ShareManager.allow" -> "os-allow_access"
      [] op \in {"Share.deny", "ShareManager.deny"} -> "os-deny_access"
      [] op \in {"Share.access_list", "ShareManager.access_list"} ->
            "os-access_list"

\* what Share.allow would have said of the arguments of this call
Verdict ==
    _validate_access(call.args.access_type, call.args.access,
                     gettext_installed).exc

\* C13: only Share.allow validates.  No other operation consults a
\* validator; ShareManager.allow, both deny and both access_list issue
\* exactly one request, their action on the share, for all their arguments:
\* ShareManager.allow sends the type and value it was given even when the
\* validator rejects them, and deny sends the rule id it was given.
C13_OnlyShareAllowValidates ==
    /\ consulted # <<>> => Done("Share.allow")
    /\ (pc = "done" /\ call.op \in UnvalidatedOps) =>
          /\ consulted = <<>>
          /\ Len(requests) = 1
          /\ IsAction(requests[1], NamedId(call.args.share), ActionOf(call.op))
          /\ outcome.exc \in {"none", reply.exc, "KeyError", "TypeError"}
    /\ Done("ShareManager.allow") =>
          LET info == Payload(requests[1], "os-allow_access").v
          IN /\ getitem(info, "access_type") = PyStr(call.args.access_type)
             /\ getitem(info, "access_to") = PyStr(call.args.access)
             /\ outcome.exc \notin {"CommandError", "NameError"}
    /\ (Done("ShareManager.deny") \/ Done("Share.deny")) =>
          getitem(Payload(requests[1], "os-deny_access").v, "access_id")
              = call.args.id

\* ShareManager.allow('ip', '10.0.0.*/24'), which Share.allow rejects, is
\* sent
C13_Witness ==
    /\ Done("ShareManager.allow")
    /\ call.args.access_type = "ip"
    /\ call.args.access = WildcardWithMask
    /\ Verdict = "CommandError"
    /\ Len(requests) = 1
    /\ getitem(Payload(requests[1], "os-allow_access").v, "access_to")
           = PyStr(WildcardWithMask)
    /\ outcome.exc = "none"

\* further cases of C13: a type with no validator, and an empty value
C13_OtherRejectedReached ==
    /\ Done("ShareManager.allow")
    /\ Verdict # "none"
    /\ Len(requests) = 1
    /\ \/ call.args.access_type = "domain"
       \/ call.args.access_type = "passwd" /\ call.args.access = <<>>

=============================================================================
